---- MODULE Spec2Model ----
(***************************************************************************)
(* Model of the console task manager (src/nui/demo/py/demo.py): the        *)
(* Storage data layer (an in-memory dict mirrored to one JSON file) and    *)
(* the TaskManager operations the main loop dispatches to.                 *)
(*                                                                         *)
(* A Python dict is a TLA+ function whose domain is the set of its keys    *)
(* (a record when the keys are known), a Python list is a sequence.  The   *)
(* backing file is a sequence of JSON tokens: json.dump writes it and      *)
(* json.load parses it back, so a file may also hold text that does not    *)
(* parse, or text that parses to something the program did not write.      *)
(***************************************************************************)
EXTENDS Integers, Sequences, FiniteSets, TLC

(***************************************************************************)
(* Bounds of the model.                                                    *)
(***************************************************************************)
\* Longest task list create_task / add_task is allowed to build.
MaxTasks == 2
\* Cap of the "created" and "completed" counters.
MaxCount == 2

(***************************************************************************)
(* Inputs.                                                                 *)
(***************************************************************************)
\* Values of str(uuid.uuid4())[:8]: an 8-hex-digit string drawn at random,
\* nothing in the program compares it to the ids in use.
IdSpace == {"0a1b2c3d", "4e5f6a7b"}
\* What the user may type at an "Enter task ID" prompt (after strip()).
TypedIds == IdSpace \cup {"ffffffff"}
\* Titles and descriptions typed by the user (after strip()).
Titles == {"Buy milk"}
Descriptions == {"2% Milk"}
\* Raw answers to the priority prompt.
PriorityAnswers == {"urgent"}
\* Values of now().
Clock == {"2026-01-01 10:00:00"}
\* Outcome of the write in save(): it succeeds, or it fails after open()
\* truncated the file.
WriteOutcomes == {"ok", "write_fails"}

(***************************************************************************)
(* JSON text: a sequence of tokens.                                        *)
(***************************************************************************)
Punct(t) == [t |-> t, v |-> "", d |-> <<>>]
StrTok(s) == [t |-> "str", v |-> s, d |-> <<>>]
NumTok(ds) == [t |-> "num", v |-> "", d |-> ds]

RECURSIVE IntToDigits(_)
IntToDigits(n) ==
    IF n < 10 THEN <<n>> ELSE IntToDigits(n \div 10) \o <<n % 10>>

RECURSIVE DigitsToInt(_)
DigitsToInt(ds) ==
    IF Len(ds) = 0 THEN 0
    ELSE 10 * DigitsToInt(SubSeq(ds, 1, Len(ds) - 1)) + ds[Len(ds)]

DumpStr(s) == <<StrTok(s)>>
DumpInt(n) == <<NumTok(IntToDigits(n))>>
DumpBool(b) == <<Punct(IF b THEN "true" ELSE "false")>>

\* The keys of a dict in the order json.dump meets them (insertion order);
\* every dict of the program is built with its keys in this order.
TaskKeys == <<"id", "title", "description", "priority", "created_at", "completed">>
StatsKeys == <<"created", "completed">>
RootKeys == <<"tasks", "stats">>

\* "{" k1 ":" v1 "," k2 ":" v2 ... "}": members maps each key of the dict to
\* the text of its value; the keys are written in the order given.
DumpObject(members, order) ==
    LET ks == SelectSeq(order, LAMBDA k : k \in DOMAIN members)
        body[i \in 0..Len(ks)] ==
            IF i = 0 THEN <<>>
            ELSE body[i - 1]
                 \o (IF i > 1 THEN <<Punct(",")>> ELSE <<>>)
                 \o <<StrTok(ks[i]), Punct(":")>>
                 \o members[ks[i]]
    IN <<Punct("{")>> \o body[Len(ks)] \o <<Punct("}")>>

\* "[" e1 "," e2 ... "]": elements is the sequence of the elements' texts.
DumpArray(elements) ==
    LET body[i \in 0..Len(elements)] ==
            IF i = 0 THEN <<>>
            ELSE body[i - 1]
                 \o (IF i > 1 THEN <<Punct(",")>> ELSE <<>>)
                 \o elements[i]
    IN <<Punct("[")>> \o body[Len(elements)] \o <<Punct("]")>>

DumpTask(task) ==
    DumpObject([k \in DOMAIN task |->
                   IF k = "completed" THEN DumpBool(task[k]) ELSE DumpStr(task[k])],
               TaskKeys)
DumpStats(stats) ==
    DumpObject([k \in DOMAIN stats |-> DumpInt(stats[k])], StatsKeys)

\* json.dump(self.data, f, indent=4): the text written for the store's data.
json_dump(data) ==
    DumpObject([k \in DOMAIN data |->
                   IF k = "tasks"
                   THEN DumpArray([i \in 1..Len(data[k]) |-> DumpTask(data[k][i])])
                   ELSE DumpStats(data[k])],
               RootKeys)

(***************************************************************************)
(* json.load: a recursive-descent parse of the token sequence.             *)
(***************************************************************************)
ParseFail == [ok |-> FALSE, val |-> <<>>, rest |-> <<>>]
Parsed(v, rest) == [ok |-> TRUE, val |-> v, rest |-> rest]
EmptyDict == <<>>

RECURSIVE ParseValue(_), ParseMembers(_, _), ParseElements(_, _)
ParseValue(ts) ==
    IF Len(ts) = 0 THEN ParseFail
    ELSE LET h == Head(ts)
             r == Tail(ts)
         IN CASE h.t = "str" -> Parsed(h.v, r)
              [] h.t = "num" -> IF Len(h.d) = 0 THEN ParseFail
                                ELSE Parsed(DigitsToInt(h.d), r)
              [] h.t = "true" -> Parsed(TRUE, r)
              [] h.t = "false" -> Parsed(FALSE, r)
              [] h.t = "{" -> IF Len(r) > 0 /\ Head(r).t = "}"
                              THEN Parsed(EmptyDict, Tail(r))
                              ELSE ParseMembers(r, EmptyDict)
              [] h.t = "[" -> IF Len(r) > 0 /\ Head(r).t = "]"
                              THEN Parsed(<<>>, Tail(r))
                              ELSE ParseElements(r, <<>>)
              [] OTHER -> ParseFail

\* key ":" value, then "," and more members, or "}"; a repeated key keeps
\* its last value.
ParseMembers(ts, acc) ==
    IF Len(ts) < 2 \/ ts[1].t # "str" \/ ts[2].t # ":" THEN ParseFail
    ELSE LET m == ParseValue(SubSeq(ts, 3, Len(ts)))
         IN IF ~m.ok \/ Len(m.rest) = 0 THEN ParseFail
            ELSE LET obj == (ts[1].v :> m.val) @@ acc
                     sep == Head(m.rest)
                 IN CASE sep.t = "}" -> Parsed(obj, Tail(m.rest))
                      [] sep.t = "," -> ParseMembers(Tail(m.rest), obj)
                      [] OTHER -> ParseFail

ParseElements(ts, acc) ==
    LET e == ParseValue(ts)
    IN IF ~e.ok \/ Len(e.rest) = 0 THEN ParseFail
       ELSE LET arr == Append(acc, e.val)
                sep == Head(e.rest)
            IN CASE sep.t = "]" -> Parsed(arr, Tail(e.rest))
                 [] sep.t = "," -> ParseElements(Tail(e.rest), arr)
                 [] OTHER -> ParseFail

\* json.load(f): the value of the text, or a raised ValueError.
json_load(text) ==
    LET p == ParseValue(text)
    IN IF p.ok /\ Len(p.rest) = 0 THEN [ok |-> TRUE, val |-> p.val]
       ELSE [ok |-> FALSE, val |-> <<>>]

(***************************************************************************)
(* The backing file and the store's data.                                  *)
(***************************************************************************)
NoFile == [exists |-> FALSE, text |-> <<>>]
FileWith(text) == [exists |-> TRUE, text |-> text]

\* self.data as Storage.__init__ sets it before load().
EmptyData == [tasks |-> <<>>, stats |-> [created |-> 0, completed |-> 0]]

\* What a call leaves behind: the store's data, the file, the value returned
\* ("True", "False" or "None") and the exception it raised ("none" when it
\* returned).
Outcome(data, file, ret, exc) ==
    [data |-> data, file |-> file, ret |-> ret, exc |-> exc]

\* Storage.load: the parsed value of the file replaces self.data, whatever its
\* shape; a missing file or a failed parse leaves self.data as it is.
load(data, file) ==
    IF file.exists
    THEN LET p == json_load(file.text)
         IN IF p.ok THEN Outcome(p.val, file, "None", "none")
            ELSE Outcome(data, file, "None", "none")
    ELSE Outcome(data, file, "None", "none")

\* Storage.__init__: the default data, then load().
Storage(file) == load(EmptyData, file)

\* save() as it would be if it wrote the task list alone.
save_tasks_only(data, file, w) ==
    IF w = "ok"
    THEN Outcome(data,
                 FileWith(json_dump([k \in DOMAIN data \ {"stats"} |-> data[k]])),
                 "None", "none")
    ELSE Outcome(data, FileWith(<<>>), "None", "OSError")

\* Storage.save: open(filename, "w") truncates the file, json.dump writes the
\* text; w is the outcome of the write.
save(data, file, w) ==
    LET text == json_dump(data)
    IN CASE w = "ok" -> Outcome(data, FileWith(text), "None", "none")
         [] OTHER -> Outcome(data, FileWith(<<>>), "None", "OSError")

\* self.data["tasks"] and self.data["stats"] raise KeyError on data without
\* the key.
HasTasks(data) == "tasks" \in DOMAIN data
HasStats(data) == "stats" \in DOMAIN data

\* Storage.get_tasks / Storage.get_stats.
get_tasks(data, file) ==
    IF HasTasks(data) THEN Outcome(data, file, "None", "none")
    ELSE Outcome(data, file, "None", "KeyError")

get_stats(data, file) ==
    IF HasStats(data) THEN Outcome(data, file, "None", "none")
    ELSE Outcome(data, file, "None", "KeyError")

\* Storage.add_task.
add_task(data, file, task, w) ==
    IF ~HasTasks(data) THEN Outcome(data, file, "None", "KeyError")
    ELSE LET appended == [data EXCEPT !["tasks"] = Append(@, task)]
         IN IF ~HasStats(appended)
            THEN Outcome(appended, file, "None", "KeyError")
            ELSE save([appended EXCEPT !["stats"]["created"] = @ + 1], file, w)

\* dict.update: the keys of updates are set in task, its other keys stay.
DictUpdate(task, updates) ==
    [k \in DOMAIN task \cup DOMAIN updates |->
        IF k \in DOMAIN updates THEN updates[k] ELSE task[k]]

\* The indices of the records of tasks whose id is task_id.
Matching(tasks, task_id) == {i \in 1..Len(tasks) : tasks[i]["id"] = task_id}
Min(S) == CHOOSE i \in S : \A j \in S : i <= j

\* update_task() as it would be without its call of save().
update_task_unsaved(data, file, task_id, updates, w) ==
    IF ~HasTasks(data) THEN Outcome(data, file, "None", "KeyError")
    ELSE IF Matching(data["tasks"], task_id) = {}
    THEN Outcome(data, file, "False", "none")
    ELSE Outcome([data EXCEPT !["tasks"][Min(Matching(data["tasks"], task_id))] =
                                  DictUpdate(@, updates)],
                 file, "True", "none")

\* Storage.update_task: the first record with the id is updated and saved.
update_task(data, file, task_id, updates, w) ==
    IF ~HasTasks(data) THEN Outcome(data, file, "None", "KeyError")
    ELSE LET found == Matching(data["tasks"], task_id)
         IN IF found = {} THEN Outcome(data, file, "False", "none")
            ELSE LET i == Min(found)
                     updated == [data EXCEPT !["tasks"][i] = DictUpdate(@, updates)]
                     saved == save(updated, file, w)
                 IN Outcome(saved.data, saved.file,
                            IF saved.exc = "none" THEN "True" ELSE "None",
                            saved.exc)

\* delete_task() as it would be if it removed the first matching record only.
delete_task_first_only(data, file, task_id, w) ==
    IF ~HasTasks(data) THEN Outcome(data, file, "None", "KeyError")
    ELSE IF Matching(data["tasks"], task_id) = {}
    THEN Outcome(data, file, "False", "none")
    ELSE LET i == Min(Matching(data["tasks"], task_id))
             kept == SubSeq(data["tasks"], 1, i - 1)
                         \o SubSeq(data["tasks"], i + 1, Len(data["tasks"]))
             saved == save([data EXCEPT !["tasks"] = kept], file, w)
         IN Outcome(saved.data, saved.file,
                    IF saved.exc = "none" THEN "True" ELSE "None", saved.exc)

\* delete_task() as it would be if a deletion took the record back out of
\* the created counter.
delete_task_uncounts(data, file, task_id, w) ==
    IF ~HasTasks(data) THEN Outcome(data, file, "None", "KeyError")
    ELSE LET kept == SelectSeq(data["tasks"], LAMBDA t : t["id"] # task_id)
             rebuilt == [data EXCEPT !["tasks"] = kept]
         IN IF Len(kept) # Len(data["tasks"])
            THEN LET uncounted ==
                         IF HasStats(rebuilt) /\ rebuilt["stats"]["created"] > 0
                         THEN [rebuilt EXCEPT !["stats"]["created"] = @ - 1]
                         ELSE rebuilt
                     saved == save(uncounted, file, w)
                 IN Outcome(saved.data, saved.file,
                            IF saved.exc = "none" THEN "True" ELSE "None",
                            saved.exc)
            ELSE Outcome(rebuilt, file, "False", "none")

\* Storage.delete_task: the list is rebuilt without the records of the id,
\* and saved when it got shorter.
delete_task(data, file, task_id, w) ==
    IF ~HasTasks(data) THEN Outcome(data, file, "None", "KeyError")
    ELSE LET original_len == Len(data["tasks"])
             kept == SelectSeq(data["tasks"], LAMBDA t : t["id"] # task_id)
             rebuilt == [data EXCEPT !["tasks"] = kept]
         IN IF Len(kept) # original_len
            THEN LET saved == save(rebuilt, file, w)
                 IN Outcome(saved.data, saved.file,
                            IF saved.exc = "none" THEN "True" ELSE "None",
                            saved.exc)
            ELSE Outcome(rebuilt, file, "False", "none")

\* Storage.increment_completed.
increment_completed(data, file, w) ==
    IF ~HasStats(data) THEN Outcome(data, file, "None", "KeyError")
    ELSE save([data EXCEPT !["stats"]["completed"] = @ + 1], file, w)

(***************************************************************************)
(* TaskManager.                                                            *)
(***************************************************************************)
\* generate_id(): any value of the id space.
generate_id == IdSpace
\* now(): the formatted time of the call.
now == Clock

\* str.strip().lower() on the answers to the priority prompt.
StripLower(answer) ==
    CASE answer = " High " -> "high"
      [] answer = "LOW" -> "low"
      [] OTHER -> answer

\* What a TaskManager method leaves behind: as Outcome, with the message it
\* printed and the number of records it displayed or wrote.
Report(o, msg, shown) ==
    [data |-> o.data, file |-> o.file, ret |-> "None", exc |-> o.exc,
     msg |-> IF o.exc = "none" THEN msg ELSE "",
     shown |-> IF o.exc = "none" THEN shown ELSE 0]

\* TaskManager.create_task: the record built from the answers, handed to
\* Storage.add_task.
NewTask(id, title, description, answer, stamp) ==
    [id |-> id,
     title |-> title,
     description |-> description,
     priority |-> IF StripLower(answer) \in {"low", "medium", "high"}
                  THEN StripLower(answer) ELSE "medium",
     created_at |-> stamp,
     completed |-> FALSE]

create_task(data, file, id, title, description, answer, stamp, w) ==
    Report(add_task(data, file, NewTask(id, title, description, answer, stamp), w),
           "Task created successfully.", 0)

\* TaskManager.list_tasks: the rows printed.
list_tasks(data, file, show_all) ==
    LET got == get_tasks(data, file)
    IN IF got.exc # "none" THEN Report(got, "", 0)
       ELSE IF Len(data["tasks"]) = 0 THEN Report(got, "No tasks available.", 0)
       ELSE Report(got, "",
                   Cardinality({i \in 1..Len(data["tasks"]) :
                                   show_all \/ ~data["tasks"][i]["completed"]}))

\* complete_task() as it would be if it counted a completion whatever
\* update_task returned.
complete_task_counts_unknown(data, file, task_id, w1, w2) ==
    LET success == update_task(data, file, task_id, [completed |-> TRUE], w1)
    IN IF success.exc # "none" THEN Report(success, "", 0)
       ELSE Report(increment_completed(success.data, success.file, w2),
                   IF success.ret = "True" THEN "Task marked as completed."
                   ELSE "Task not found.", 0)

\* complete_task() as it would be if it counted only the completion of a
\* record that was not completed yet.
complete_task_counts_once(data, file, task_id, w1, w2) ==
    LET success == update_task(data, file, task_id, [completed |-> TRUE], w1)
    IN IF success.exc # "none" THEN Report(success, "", 0)
       ELSE IF success.ret = "True"
       THEN IF data["tasks"][Min(Matching(data["tasks"], task_id))]["completed"]
            THEN Report(success, "Task marked as completed.", 0)
            ELSE Report(increment_completed(success.data, success.file, w2),
                        "Task marked as completed.", 0)
       ELSE Report(success, "Task not found.", 0)

\* complete_task() as it would be if it flipped the completed flag.
complete_task_toggles(data, file, task_id, w1, w2) ==
    LET flipped ==
            IF HasTasks(data) /\ Matching(data["tasks"], task_id) # {}
            THEN ~data["tasks"][Min(Matching(data["tasks"], task_id))]["completed"]
            ELSE TRUE
        success == update_task(data, file, task_id, [completed |-> flipped], w1)
    IN IF success.exc # "none" THEN Report(success, "", 0)
       ELSE IF success.ret = "True"
       THEN Report(increment_completed(success.data, success.file, w2),
                   "Task marked as completed.", 0)
       ELSE Report(success, "Task not found.", 0)

\* TaskManager.complete_task: update_task with {"completed": True}, then
\* increment_completed when update_task returned True.
complete_task(data, file, task_id, w1, w2) ==
    LET success == update_task(data, file, task_id, [completed |-> TRUE], w1)
    IN IF success.exc # "none" THEN Report(success, "", 0)
       ELSE IF success.ret = "True"
       THEN Report(increment_completed(success.data, success.file, w2),
                   "Task marked as completed.", 0)
       ELSE Report(success, "Task not found.", 0)

\* TaskManager.delete_task.
TaskManager_delete_task(data, file, task_id, w) ==
    LET deleted == delete_task(data, file, task_id, w)
    IN IF deleted.exc # "none" THEN Report(deleted, "", 0)
       ELSE IF deleted.ret = "True" THEN Report(deleted, "Task deleted.", 0)
       ELSE Report(deleted, "Task not found.", 0)

\* str.lower() on the titles and descriptions, and the substring test
\* "keyword in text" on the keywords and the lowered texts.
Keywords == {"milk", "tea", ""}
Lower(text) ==
    CASE text = "Buy milk" -> "buy milk"
      [] text = "2% Milk" -> "2% milk"
      [] OTHER -> text
IsIn(keyword, text) ==
    \/ keyword = ""
    \/ keyword = "milk" /\ text \in {"buy milk", "2% milk"}

\* TaskManager.search_tasks: the matching records printed.
search_tasks(data, file, keyword) ==
    LET got == get_tasks(data, file)
    IN IF got.exc # "none" THEN Report(got, "", 0)
       ELSE LET results == {i \in 1..Len(data["tasks"]) :
                               \/ IsIn(keyword, Lower(data["tasks"][i]["title"]))
                               \/ IsIn(keyword, Lower(data["tasks"][i]["description"]))}
            IN IF results = {} THEN Report(got, "No matching tasks found.", 0)
               ELSE Report(got, "", Cardinality(results))

\* TaskManager.show_stats: get_stats(), then len(get_tasks()) is the total.
show_stats(data, file) ==
    LET stats == get_stats(data, file)
        got == get_tasks(data, file)
    IN IF stats.exc # "none" THEN Report(stats, "", 0)
       ELSE IF got.exc # "none" THEN Report(got, "", 0)
       ELSE Report(got, "", Len(data["tasks"]))

\* TaskManager.export_tasks: one stanza written per record.
export_tasks(data, file) ==
    LET got == get_tasks(data, file)
    IN IF got.exc # "none" THEN Report(got, "", 0)
       ELSE Report(got, "Tasks exported.", Len(data["tasks"]))

(***************************************************************************)
(* State.                                                                  *)
(***************************************************************************)
VARIABLES
    data,          \* Storage.data, the in-memory state
    file,          \* the backing file DATA_FILE
    status,        \* "ok", or the exception the last call raised, or "exited"
    lastOp,        \* the last operation called
    lastArg,       \* the task id it was given ("" when it takes none)
    ret,           \* what the last Storage call returned
    msg,           \* the result message the last TaskManager call printed
    shown,         \* the number of records it displayed or wrote
    startedEmpty,  \* the session's store was the empty state after load()
    adds,          \* create_task calls completed in the session
    dels           \* delete_task calls of the session that returned True

vars == <<data, file, status, lastOp, lastArg, ret, msg, shown,
          startedEmpty, adds, dels>>

session == <<startedEmpty, adds, dels>>

\* The files the program may find at start: none, a file cut short, "{}", a
\* file without "stats", and a file it wrote earlier.
SavedTask ==
    [id |-> "0a1b2c3d", title |-> "Buy milk", description |-> "2% Milk",
     priority |-> "low", created_at |-> "2026-01-01 10:00:00", completed |-> TRUE]
SavedData == [tasks |-> <<SavedTask>>, stats |-> [created |-> 1, completed |-> 1]]
InitialFiles ==
    {NoFile,
     FileWith(SubSeq(json_dump(SavedData), 1, Len(json_dump(SavedData)) - 1)),
     FileWith(<<Punct("{"), Punct("}")>>),
     FileWith(<<Punct("{"), StrTok("tasks"), Punct(":"), Punct("["), Punct("]"),
                Punct("}")>>),
     FileWith(json_dump(SavedData))}

\* The outcomes of the two saves of complete_task: the second is reached
\* only when the first succeeded.
SaveOutcomes ==
    {<<w, "ok">> : w \in WriteOutcomes \ {"ok"}}
        \cup {<<"ok", w>> : w \in WriteOutcomes}

StatusOf(exc) == IF exc = "none" THEN "ok" ELSE exc

\* A Storage outcome as a step's result.
Plain(o) ==
    [data |-> o.data, file |-> o.file, ret |-> o.ret, exc |-> o.exc,
     msg |-> "", shown |-> 0]

\* The state after a call that left r behind.
Step(r, op, arg) ==
    /\ data' = r.data
    /\ file' = r.file
    /\ status' = StatusOf(r.exc)
    /\ ret' = r.ret
    /\ msg' = r.msg
    /\ shown' = r.shown
    /\ lastOp' = op
    /\ lastArg' = arg

\* The counters of the model stay within the bounds.
RoomForTask == HasTasks(data) => Len(data["tasks"]) < MaxTasks
RoomForCreated == HasStats(data) => data["stats"]["created"] < MaxCount
RoomForCompleted == HasStats(data) => data["stats"]["completed"] < MaxCount

\* main(): Storage(DATA_FILE) and the TaskManager over it.
Started(f) ==
    /\ Step(Plain(Storage(f)), "main", "")
    /\ startedEmpty' = (Storage(f).data = EmptyData)
    /\ adds' = 0
    /\ dels' = 0

Init ==
    \E f \in InitialFiles :
        /\ data = Storage(f).data
        /\ file = f
        /\ status = "ok"
        /\ lastOp = "main"
        /\ lastArg = ""
        /\ ret = "None"
        /\ msg = ""
        /\ shown = 0
        /\ startedEmpty = (Storage(f).data = EmptyData)
        /\ adds = 0
        /\ dels = 0

(***************************************************************************)
(* The main loop: one action per menu choice.                              *)
(***************************************************************************)
CreateTask ==
    /\ status = "ok"
    /\ RoomForTask /\ RoomForCreated
    /\ \E id \in generate_id, title \in Titles, description \in Descriptions,
          answer \in PriorityAnswers, stamp \in now, w \in WriteOutcomes :
          LET r == create_task(data, file, id, title, description, answer, stamp, w)
          IN /\ Step(r, "create", "")
             /\ adds' = IF r.exc = "none" THEN adds + 1 ELSE adds
             /\ UNCHANGED <<startedEmpty, dels>>

ListAllTasks ==
    /\ status = "ok"
    /\ Step(list_tasks(data, file, TRUE), "list_all", "")
    /\ UNCHANGED session

ListActiveTasks ==
    /\ status = "ok"
    /\ Step(list_tasks(data, file, FALSE), "list_active", "")
    /\ UNCHANGED session

CompleteTask ==
    /\ status = "ok"
    /\ RoomForCompleted
    /\ \E task_id \in TypedIds, w \in SaveOutcomes :
          Step(complete_task(data, file, task_id, w[1], w[2]), "complete", task_id)
    /\ UNCHANGED session

DeleteTask ==
    /\ status = "ok"
    /\ \E task_id \in TypedIds, w \in WriteOutcomes :
          LET r == TaskManager_delete_task(data, file, task_id, w)
          IN /\ Step(r, "delete", task_id)
             /\ dels' = IF r.msg = "Task deleted." THEN dels + 1 ELSE dels
             /\ UNCHANGED <<startedEmpty, adds>>

SearchTasks ==
    /\ status = "ok"
    /\ \E keyword \in Keywords :
          Step(search_tasks(data, file, keyword), "search", "")
    /\ UNCHANGED session

ShowStats ==
    /\ status = "ok"
    /\ Step(show_stats(data, file), "stats", "")
    /\ UNCHANGED session

ExportTasks ==
    /\ status = "ok"
    /\ Step(export_tasks(data, file), "export", "")
    /\ UNCHANGED session

\* Choice "0": the loop ends.
Exit ==
    /\ status = "ok"
    /\ status' = "exited"
    /\ lastOp' = "exit"
    /\ lastArg' = ""
    /\ ret' = "None"
    /\ msg' = "Goodbye."
    /\ shown' = 0
    /\ UNCHANGED <<data, file, session>>

\* Any other choice: a message, and the loop goes on.
InvalidChoice ==
    /\ status = "ok"
    /\ lastOp' = "invalid"
    /\ lastArg' = ""
    /\ ret' = "None"
    /\ msg' = "Invalid option."
    /\ shown' = 0
    /\ UNCHANGED <<data, file, status, session>>

\* The program is run again after it ended (by choice "0" or by an
\* exception that main() does not catch).
Restart ==
    /\ status # "ok"
    /\ Started(file)

Next ==
    \/ CreateTask
    \/ ListAllTasks
    \/ ListActiveTasks
    \/ CompleteTask
    \/ DeleteTask
    \/ SearchTasks
    \/ ShowStats
    \/ ExportTasks
    \/ Exit
    \/ InvalidChoice
    \/ Restart

Spec == Init /\ [][Next]_vars

(***************************************************************************)
(* The Storage interface called directly: one action per method, by a      *)
(* caller that goes on after an exception.                                 *)
(***************************************************************************)
\* Records a caller hands to add_task, and the updates it hands to
\* update_task.
TasksToAdd ==
    {NewTask(id, title, description, answer, stamp) :
        id \in IdSpace, title \in Titles, description \in Descriptions,
        answer \in PriorityAnswers, stamp \in Clock}
Updates == {[completed |-> TRUE], [completed |-> FALSE]}

CallStorage ==
    /\ Step(Plain(Storage(file)), "Storage", "")
    /\ UNCHANGED session

CallLoad ==
    /\ Step(Plain(load(data, file)), "load", "")
    /\ UNCHANGED session

CallSave ==
    /\ \E w \in WriteOutcomes : Step(Plain(save(data, file, w)), "save", "")
    /\ UNCHANGED session

CallAddTask ==
    /\ RoomForTask /\ RoomForCreated
    /\ \E task \in TasksToAdd, w \in WriteOutcomes :
          Step(Plain(add_task(data, file, task, w)), "add_task", task["id"])
    /\ UNCHANGED session

CallUpdateTask ==
    /\ \E task_id \in TypedIds, updates \in Updates, w \in WriteOutcomes :
          Step(Plain(update_task(data, file, task_id, updates, w)),
               "update_task", task_id)
    /\ UNCHANGED session

CallDeleteTask ==
    /\ \E task_id \in TypedIds, w \in WriteOutcomes :
          Step(Plain(delete_task(data, file, task_id, w)), "delete_task", task_id)
    /\ UNCHANGED session

CallIncrementCompleted ==
    /\ RoomForCompleted
    /\ \E w \in WriteOutcomes :
          Step(Plain(increment_completed(data, file, w)), "increment_completed", "")
    /\ UNCHANGED session

CallCompleteTask ==
    /\ RoomForCompleted
    /\ \E task_id \in TypedIds, w \in SaveOutcomes :
          Step(complete_task(data, file, task_id, w[1], w[2]),
               "complete_task", task_id)
    /\ UNCHANGED session

NextStorage ==
    \/ CallStorage
    \/ CallLoad
    \/ CallSave
    \/ CallAddTask
    \/ CallUpdateTask
    \/ CallDeleteTask
    \/ CallIncrementCompleted
    \/ CallCompleteTask

SpecStorage == Init /\ [][NextStorage]_vars

(***************************************************************************)
(* Properties.                                                             *)
(***************************************************************************)
\* The persisted-file structure: an object with a "tasks" list and a
\* "stats" object.
IsPersistedStructure(text) ==
    /\ json_load(text).ok
    /\ HasTasks(json_load(text).val)
    /\ HasStats(json_load(text).val)

\* The file holds exactly the in-memory state.
FileMirrorsData ==
    /\ file.exists
    /\ json_load(file.text).ok
    /\ json_load(file.text).val = data

\* The k-th smallest element of a set of indices.
Nth(S, k) == CHOOSE i \in S : Cardinality({j \in S : j <= i}) = k

\* The completed flags of the records of tasks with the given id, in list
\* order.
FlagsOf(tasks, id) ==
    LET idx == Matching(tasks, id)
    IN [k \in 1..Cardinality(idx) |-> tasks[Nth(idx, k)]["completed"]]

IdsIn(tasks) == {tasks[i]["id"] : i \in 1..Len(tasks)}

\* C1: starting from an empty store, after any sequence of creations and
\* deletions the length of the task list is the number of creations minus
\* the number of delete calls that returned True.
C1_LengthIsCreationsMinusDeletions ==
    (startedEmpty /\ status = "ok") => Len(data["tasks"]) = adds - dels

\* C2: in every reachable state of the store no two records of the task
\* list have the same identifier.
C2_IdentifiersAreUnique ==
    (status = "ok" /\ HasTasks(data)) =>
        \A i, j \in 1..Len(data["tasks"]) :
            i # j => data["tasks"][i]["id"] # data["tasks"][j]["id"]

\* C4: when the file exists but does not parse, or parses to something
\* that is not the persisted-file structure, load() leaves the store in the
\* empty state, and no later operation fails on the loaded data.
C4_InvalidFileFallsBackToEmpty ==
    /\ (lastOp = "main" /\ file.exists /\ ~IsPersistedStructure(file.text))
          => data = EmptyData
    /\ status # "KeyError"

\* C5: completing with an identifier that matches no record of the list
\* reports not-found and leaves the counters, every record and the file
\* unchanged.
C5_CompleteUnknownIdChangesNothing ==
    [][(/\ lastOp' = "complete"
        /\ HasTasks(data)
        /\ Matching(data["tasks"], lastArg') = {})
       => (/\ status' = "ok"
           /\ msg' = "Task not found."
           /\ data' = data
           /\ file' = file)]_vars

C5_Witness ==
    /\ lastOp = "complete"
    /\ msg = "Task not found."
    /\ HasTasks(data) /\ Len(data["tasks"]) >= 1
    /\ HasStats(data) /\ data["stats"]["completed"] >= 1

\* C6: completing with an identifier that is in the list sets completed on
\* the first record with that identifier, changes no other field of any
\* record, and adds exactly 1 to the completed counter, also when the record
\* was completed already.
C6_CompleteKnownIdCountsEveryCall ==
    [][(/\ lastOp' = "complete"
        /\ status' = "ok"
        /\ HasTasks(data)
        /\ Matching(data["tasks"], lastArg') # {})
       => (\E i \in 1..Len(data["tasks"]) :
              /\ data["tasks"][i]["id"] = lastArg'
              /\ \A j \in 1..(i - 1) : data["tasks"][j]["id"] # lastArg'
              /\ Len(data'["tasks"]) = Len(data["tasks"])
              /\ \A j \in 1..Len(data["tasks"]) :
                    j # i => data'["tasks"][j] = data["tasks"][j]
              /\ data'["tasks"][i]["completed"] = TRUE
              /\ DOMAIN data'["tasks"][i] = DOMAIN data["tasks"][i]
              /\ \A k \in DOMAIN data["tasks"][i] \ {"completed"} :
                    data'["tasks"][i][k] = data["tasks"][i][k]
              /\ data'["stats"]["completed"] = data["stats"]["completed"] + 1
              /\ data'["stats"]["created"] = data["stats"]["created"]
              /\ msg' = "Task marked as completed.")]_vars

\* The completed counter exceeds the created counter after a repeated
\* completion.
C6_Witness ==
    /\ lastOp = "complete"
    /\ status = "ok"
    /\ msg = "Task marked as completed."
    /\ data["stats"]["completed"] > data["stats"]["created"]

\* C9: a record is created with completed = false, and a record that is
\* completed stays completed through every TaskManager operation until it is
\* deleted.
C9_CompletedIsOneWay ==
    [][(lastOp' # "main" /\ HasTasks(data))
       => (/\ HasTasks(data')
           /\ \A id \in IdsIn(data["tasks"]) :
                 LET old == FlagsOf(data["tasks"], id)
                     new == FlagsOf(data'["tasks"], id)
                 IN \/ lastOp' = "delete" /\ lastArg' = id /\ Len(new) = 0
                    \/ /\ Len(new) >= Len(old)
                       /\ \A k \in 1..Len(old) : old[k] => new[k]
           /\ Len(data'["tasks"]) > Len(data["tasks"])
                 => /\ lastOp' = "create"
                    /\ ~data'["tasks"][Len(data'["tasks"])]["completed"])]_vars

\* A record is created next to a completed one, which stays completed.
C9_Witness ==
    /\ lastOp = "create"
    /\ status = "ok"
    /\ Len(data["tasks"]) = 2
    /\ data["tasks"][1]["completed"]
    /\ ~data["tasks"][2]["completed"]

\* C10: within a session neither counter decreases; created grows by
\* exactly 1 on each creation and changes in no other operation, completed
\* changes only where increment_completed is called, and a deletion changes
\* neither.
C10_CountersNeverDecrease ==
    [][(lastOp' # "main" /\ HasStats(data))
       => LET created == data["stats"]["created"]
              completed == data["stats"]["completed"]
          IN /\ HasStats(data')
             /\ data'["stats"]["created"] >= created
             /\ data'["stats"]["completed"] >= completed
             /\ (lastOp' = "create" /\ status' = "ok")
                   => data'["stats"]["created"] = created + 1
             /\ data'["stats"]["created"] # created
                   => lastOp' = "create" /\ data'["stats"]["created"] = created + 1
             /\ data'["stats"]["completed"] # completed
                   => /\ lastOp' = "complete"
                      /\ data'["stats"]["completed"] = completed + 1
             /\ lastOp' = "delete" => data'["stats"] = data["stats"]]_vars

\* A deletion left both counters above the length of the list.
C10_Witness ==
    /\ lastOp = "delete"
    /\ msg = "Task deleted."
    /\ Len(data["tasks"]) = 0
    /\ data["stats"]["created"] >= 1
    /\ data["stats"]["completed"] >= 1

\* C3: after every completed mutating operation (add_task, a successful
\* update_task, a successful delete_task, increment_completed, and the
\* composite complete_task) the backing file holds the in-memory state.
C3_MutationsAreFlushed ==
    (/\ status = "ok"
     /\ \/ lastOp \in {"add_task", "increment_completed"}
        \/ lastOp \in {"update_task", "delete_task"} /\ ret = "True"
        \/ lastOp = "complete_task" /\ msg = "Task marked as completed.")
    => FileMirrorsData

\* A successful update of a record of a two-record list has been flushed.
C3_Witness ==
    /\ lastOp = "update_task"
    /\ status = "ok"
    /\ ret = "True"
    /\ Len(data["tasks"]) = 2
    /\ FileMirrorsData

\* C7: save() followed by load() on the same store, or by a new Storage
\* over the same file, yields the state that was saved.
C7_SaveThenLoadRoundTrips ==
    [][(/\ lastOp = "save"
        /\ status = "ok"
        /\ lastOp' \in {"load", "Storage"})
       => (status' = "ok" /\ data' = data)]_vars

\* A new Storage read back a list with a completed and an active record and
\* both counters set.
C7_Witness ==
    /\ lastOp = "Storage"
    /\ status = "ok"
    /\ HasTasks(data) /\ HasStats(data)
    /\ Len(data["tasks"]) = 2
    /\ data["tasks"][1]["completed"]
    /\ ~data["tasks"][2]["completed"]
    /\ data["stats"]["created"] = 2
    /\ data["stats"]["completed"] = 1

====
